---- MODULE Spec2Model ----
(***************************************************************************)
(* Model of the Double-Big-Harvard processor simulator: a three-stage      *)
(* (fetch / decode / execute) pipeline over a 64 x 8-bit register file, a  *)
(* 1024 x 16-bit instruction store and a 2048 x 8-bit data store.          *)
(*                                                                         *)
(* The state is the Processor structure of processor.h (variable cpu) and  *)
(* the position of main's run loop (variable step).  One action per stage  *)
(* function of process_cycle, taken in the order the code calls them:      *)
(* execute, decode, fetch, then the loop test of main.  Variable seq is a  *)
(* reference machine used by the equivalence claim only.  Variable text is *)
(* the program file given to the loader; variable call records the last    *)
(* call made directly to the data-store functions mem_write_data and       *)
(* mem_read_data (its arguments and return value).                         *)
(***************************************************************************)
EXTENDS Integers, Sequences, FiniteSets, TLC

VARIABLES cpu, seq, step, text, call

vars == <<cpu, seq, step, text, call>>

(***************************************************************************)
(* Sizes and masks fixed by the C types and array declarations.            *)
(***************************************************************************)
NUM_REGS == 64
INSTR_MEM_SIZE == 1024
DATA_MEM_SIZE == 2048
TWO8 == 256
TWO16 == 65536
INT_BITS == 32

FLAG_C == 8
FLAG_V == 4
FLAG_N == 2
FLAG_S == 1
FLAG_Z == 16

(***************************************************************************)
(* Bounds of the model.                                                    *)
(***************************************************************************)
MaxProgLen == 3

MaxRawLen == 3

(***************************************************************************)
(* C integer conversions and bitwise operators.                            *)
(***************************************************************************)
ToUint8(n) == n % TWO8

ToUint16(n) == n % TWO16

ToInt8(n) == IF n % TWO8 >= 128 THEN (n % TWO8) - TWO8 ELSE n % TWO8

Pow2(k) == 2 ^ k

Min(a, b) == IF a < b THEN a ELSE b

RECURSIVE BitAnd(_, _)
BitAnd(a, b) ==
    IF a = 0 \/ b = 0 THEN 0
    ELSE (a % 2) * (b % 2) + 2 * BitAnd(a \div 2, b \div 2)

RECURSIVE BitOr(_, _)
BitOr(a, b) ==
    IF a = 0 THEN b
    ELSE IF b = 0 THEN a
    ELSE (IF a % 2 = 1 \/ b % 2 = 1 THEN 1 ELSE 0) + 2 * BitOr(a \div 2, b \div 2)

RECURSIVE BitXor(_, _)
BitXor(a, b) ==
    IF a = 0 THEN b
    ELSE IF b = 0 THEN a
    ELSE ((a + b) % 2) + 2 * BitXor(a \div 2, b \div 2)

\* a >> k for |a| < 2^30 (floor division; the power is capped where the
\* quotient no longer changes, to stay within TLC's 32-bit integers).
ShiftRight(a, k) == a \div Pow2(Min(k, 30))

\* The low 8 bits of a << k for a in 0..255: zero once k reaches 8.
ShiftLeft8(a, k) == ToUint8(a * Pow2(Min(k, 8)))

(***************************************************************************)
(* Program text.  A line is a mnemonic, a register number and either a     *)
(* second register ("%s R%d R%d") or a decimal value ("%s R%d %d").        *)
(***************************************************************************)
RR(op, r1, r2) == [op |-> op, r1 |-> r1, reg2 |-> TRUE, arg |-> r2]

RI(op, r1, value) == [op |-> op, r1 |-> r1, reg2 |-> FALSE, arg |-> value]

RRMnemonics == {"ADD", "SUB", "MUL", "EOR", "BR"}

RIMnemonics == {"MOVI", "BEQZ", "ANDI", "SAL", "SAR", "LDR", "STR"}

opcode_of(op) ==
    CASE op = "ADD"  -> 0
      [] op = "SUB"  -> 1
      [] op = "MUL"  -> 2
      [] op = "MOVI" -> 3
      [] op = "BEQZ" -> 4
      [] op = "ANDI" -> 5
      [] op = "EOR"  -> 6
      [] op = "BR"   -> 7
      [] op = "SAL"  -> 8
      [] op = "SAR"  -> 9
      [] op = "LDR"  -> 10
      [] op = "STR"  -> 11

\* A line the loader does not reject with exit(EXIT_FAILURE).
line_accepted(line) ==
    IF line.reg2 THEN line.op \in RRMnemonics ELSE line.op \in RIMnemonics

\* instruction = (opcode << 12) | ((rs & 0x3F) << 6) | (rt-or-imm & 0x3F),
\* rs, rt and imm first narrowed to uint8_t.
encode_line(line) ==
    LET rs == ToUint8(line.r1)
        lo == ToUint8(line.arg)
    IN  BitOr(BitOr(opcode_of(line.op) * 4096, BitAnd(rs, 63) * 64),
              BitAnd(lo, 63))

(***************************************************************************)
(* The program texts the model runs: every sequence of at most MaxProgLen  *)
(* lines over Lines.                                                       *)
(***************************************************************************)
Lines ==
    { RI("MOVI", 1, 1), RI("MOVI", 2, 2), RI("MOVI", 0, 3),
      RR("ADD", 1, 2), RR("SUB", 1, 2), RR("SUB", 2, 1), RR("MUL", 1, 2),
      RR("EOR", 1, 2), RI("ANDI", 1, 3), RI("SAL", 1, 1), RI("SAR", 1, 1),
      RI("STR", 1, 10), RI("LDR", 2, 10),
      RI("BEQZ", 0, -2), RI("BEQZ", 1, 1),
      RR("BR", 1, 2), RR("BR", 0, 0), RR("ADD", 0, 0) }

Programs == UNION { [1..n -> Lines] : n \in 0..MaxProgLen }

(***************************************************************************)
(* Construction: proc_init, mem_init, mem_load_program.                    *)
(***************************************************************************)
IF_ID_zero == [instr |-> 0, pc |-> 0, valid |-> FALSE]

ID_EX_zero ==
    [instr |-> 0, pc |-> 0, opcode |-> 0, rs |-> 0, rt |-> 0, imm |-> 0,
     valueRS |-> 0, valueRT |-> 0, valid |-> FALSE]

\* An array (Register, instr_mem, data_mem) is represented by its nonzero
\* cells: a function from the indices that hold a nonzero value to that
\* value.  Every other cell of the array holds 0, as memset left it.
zeroed_store == [a \in {} |-> 0]

store_get(m, a) == IF a \in DOMAIN m THEN m[a] ELSE 0

store_put(m, a, v) ==
    IF v = 0 THEN [x \in DOMAIN m \ {a} |-> m[x]]
    ELSE [x \in DOMAIN m \cup {a} |-> IF x = a THEN v ELSE m[x]]

proc_init ==
    [Register  |-> zeroed_store,
     SREG      |-> 0,
     PC        |-> 0,
     instr_mem |-> zeroed_store,
     data_mem  |-> zeroed_store,
     IF_ID     |-> IF_ID_zero,
     ID_EX     |-> ID_EX_zero,
     EX_instr  |-> 0,
     EX_pc     |-> 0,
     EX_valid  |-> FALSE]

\* Register[i]
Reg(p, i) == store_get(p.Register, i)

mem_init(p) ==
    [p EXCEPT !.instr_mem = zeroed_store, !.data_mem = zeroed_store]

\* Lines are stored from address 0 upwards while addr < 0x0400.
RECURSIVE load_lines(_, _, _)
load_lines(m, file, addr) ==
    IF addr >= Len(file) \/ addr >= INSTR_MEM_SIZE THEN m
    ELSE load_lines(store_put(m, addr, encode_line(file[addr + 1])), file, addr + 1)

mem_load_program(p, file) ==
    [p EXCEPT !.instr_mem = load_lines(p.instr_mem, file, 0)]

(***************************************************************************)
(* Data store access.                                                      *)
(***************************************************************************)
\* Faulty variant: the bound of the positive immediates (32) used for the data
\* store.
mem_read_data_bound_32(p, addr) ==
    IF addr >= 32 THEN 0 ELSE store_get(p.data_mem, addr)

mem_read_data(p, addr) ==
    IF addr >= DATA_MEM_SIZE THEN 0 ELSE store_get(p.data_mem, addr)

\* Faulty variant: the store made to the cell after the addressed one.
mem_write_data_next_cell(p, addr, data) ==
    IF addr >= DATA_MEM_SIZE THEN p
    ELSE [p EXCEPT !.data_mem = store_put(p.data_mem, addr + 1, data)]

\* Faulty variant: the bound test passing the first address beyond the store.
mem_write_data_bound_inclusive(p, addr, data) ==
    IF addr > DATA_MEM_SIZE THEN p
    ELSE [p EXCEPT !.data_mem = store_put(p.data_mem, addr, data)]

mem_write_data(p, addr, data) ==
    IF addr >= DATA_MEM_SIZE THEN p
    ELSE [p EXCEPT !.data_mem = store_put(p.data_mem, addr, data)]

(***************************************************************************)
(* Status flags (update_flags).                                            *)
(***************************************************************************)
\* The widened sum (ADD) or the difference of the sign-extended operands
\* (SUB), as a uint16_t.
flags_temp(val1, val2, op) ==
    IF op = 0 THEN ToUint16(val1 + val2)
    ELSE ToUint16(ToInt8(val1) - ToInt8(val2))

\* uint8_t ovf = ((val1 ^ result) & (val2 ^ result)) >> 7
flags_ovf(val1, val2, result) ==
    ToUint8(ShiftRight(BitAnd(BitXor(val1, result), BitXor(val2, result)), 7))

\* ((SREG & FLAG_N) >> 1) ^ (SREG & FLAG_V), the condition that sets FLAG_S
flags_sign_test(sreg) ==
    BitXor(ShiftRight(BitAnd(sreg, FLAG_N), 1), BitAnd(sreg, FLAG_V))

\* Faulty variant: update_flags without its first statement, p->SREG = 0.
flags_clear_missing(sreg) == sreg

\* p->SREG = 0
flags_clear(sreg) == 0

\* Faulty variant: the Zero flag decided on the low seven bits of the result.
flags_zn_low7(sreg, result) ==
    LET z == IF BitAnd(result, 127) = 0 THEN BitOr(sreg, FLAG_Z) ELSE sreg
    IN  IF BitAnd(result, 128) # 0 THEN BitOr(z, FLAG_N) ELSE z

\* if (result == 0) SREG |= FLAG_Z;  if (result & 0x80) SREG |= FLAG_N;
flags_zn(sreg, result) ==
    LET z == IF result = 0 THEN BitOr(sreg, FLAG_Z) ELSE sreg
    IN  IF BitAnd(result, 128) # 0 THEN BitOr(z, FLAG_N) ELSE z

update_flags(p, result, val1, val2, op) ==
    LET zn == flags_zn(flags_clear(p.SREG), result)
        sreg ==
          IF op = 0 \/ op = 1
          THEN LET c == IF BitAnd(flags_temp(val1, val2, op), 256) # 0
                        THEN BitOr(zn, FLAG_C) ELSE zn
                   v == IF flags_ovf(val1, val2, result) # 0
                        THEN BitOr(c, FLAG_V) ELSE c
               IN  IF flags_sign_test(v) # 0 THEN BitOr(v, FLAG_S) ELSE v
          ELSE zn
    IN  [p EXCEPT !.SREG = sreg]

(***************************************************************************)
(* fetch                                                                   *)
(***************************************************************************)
\* Faulty variant: the all-zero word latched like any other word.
fetch_no_sentinel(p) ==
    IF p.PC < INSTR_MEM_SIZE
    THEN [p EXCEPT !.IF_ID = [instr |-> store_get(p.instr_mem, p.PC),
                              pc |-> p.PC, valid |-> TRUE],
                   !.PC = ToUint16(p.PC + 1)]
    ELSE p

\* Faulty variant: the incremented program counter recorded in the latch.
fetch_latches_next_pc(p) ==
    IF p.PC < INSTR_MEM_SIZE
    THEN LET instruction == store_get(p.instr_mem, p.PC)
         IN  IF instruction = 0
             THEN [p EXCEPT !.PC = INSTR_MEM_SIZE]
             ELSE [p EXCEPT !.IF_ID = [instr |-> instruction,
                                       pc |-> ToUint16(p.PC + 1),
                                       valid |-> TRUE],
                            !.PC = ToUint16(p.PC + 1)]
    ELSE p

fetch(p) ==
    IF p.PC < INSTR_MEM_SIZE
    THEN LET instruction == store_get(p.instr_mem, p.PC)
         IN  IF instruction = 0
             THEN [p EXCEPT !.PC = INSTR_MEM_SIZE]
             ELSE [p EXCEPT !.IF_ID = [instr |-> instruction, pc |-> p.PC,
                                       valid |-> TRUE],
                            !.PC = ToUint16(p.PC + 1)]
    ELSE p

(***************************************************************************)
(* decode                                                                  *)
(***************************************************************************)
ImmOpcodes == {3, 4, 5, 10, 11, 8, 9}

\* (int16_t)((int8_t)(instruction & 0x3F))
low6_value(instruction) == ToInt8(BitAnd(instruction, 63))

\* Faulty variant: the opcode taken from three bits only.
decode_opcode_3bit(instruction) == BitAnd(ShiftRight(instruction, 12), 7)

\* (instruction >> 12) & 0x0F
decode_opcode(instruction) == BitAnd(ShiftRight(instruction, 12), 15)

\* Faulty variant: the register index taken from eight bits.
decode_rs_8bit(instruction) == BitAnd(ShiftRight(instruction, 6), 255)

\* (instruction >> 6) & 0x3F
decode_rs(instruction) == BitAnd(ShiftRight(instruction, 6), 63)

\* Faulty variant: decode that leaves the IF/ID latch valid.
decode_keeps_IF_ID(p) ==
    IF ~p.IF_ID.valid THEN p
    ELSE LET instruction == p.IF_ID.instr
             opcode == decode_opcode(instruction)
             rs     == decode_rs(instruction)
             isImm  == opcode \in ImmOpcodes
             rt     == IF isImm THEN 0 ELSE ToUint8(low6_value(instruction))
         IN  [p EXCEPT !.ID_EX =
                [instr   |-> instruction,
                 pc      |-> p.IF_ID.pc,
                 opcode  |-> opcode,
                 rs      |-> rs,
                 rt      |-> rt,
                 imm     |-> IF isImm THEN low6_value(instruction) ELSE 0,
                 valueRS |-> Reg(p, rs),
                 valueRT |-> Reg(p, rt),
                 valid   |-> TRUE]]

decode(p) ==
    IF ~p.IF_ID.valid THEN p
    ELSE LET instruction == p.IF_ID.instr
             opcode == decode_opcode(instruction)
             rs     == decode_rs(instruction)
             isImm  == opcode \in ImmOpcodes
             imm    == IF isImm THEN low6_value(instruction) ELSE 0
             rt     == IF isImm THEN 0 ELSE ToUint8(low6_value(instruction))
             E == [instr   |-> instruction,
                   pc      |-> p.IF_ID.pc,
                   opcode  |-> opcode,
                   rs      |-> rs,
                   rt      |-> rt,
                   imm     |-> imm,
                   valueRS |-> Reg(p, rs),
                   valueRT |-> Reg(p, rt),
                   valid   |-> TRUE]
         IN  [p EXCEPT !.ID_EX = E, !.IF_ID.valid = FALSE]

(***************************************************************************)
(* execute                                                                 *)
(***************************************************************************)
\* The second operand: the register snapshot for opcodes 0, 1, 2, 6, 7 and
\* the immediate, narrowed to uint8_t, for every other opcode.
select_val2(opcode, valueRT, immediate) ==
    IF opcode <= 2 \/ opcode = 6 \/ opcode = 7 THEN valueRT
    ELSE ToUint8(immediate)

\* val1 << val2 on operands promoted to int, stored in a uint8_t.  A shift
\* count of INT_BITS or more is undefined in C: the outcomes are the count
\* taken modulo INT_BITS (x86) and a result of 0 (ARM).
sal_results(val1, val2) ==
    IF val2 < INT_BITS THEN { ShiftLeft8(val1, val2) }
    ELSE { ShiftLeft8(val1, val2 % INT_BITS), 0 }

\* ((int8_t)val1) >> val2, stored in a uint8_t.  A count of INT_BITS or
\* more is undefined: the outcomes are the count taken modulo INT_BITS and
\* a shift that leaves only copies of the sign bit.
\* Faulty variant: the shift made on the unsigned byte (a logical shift).
sar_results_logical(val1, val2) == { ToUint8(ShiftRight(val1, val2 % INT_BITS)) }

sar_results(val1, val2) ==
    IF val2 < INT_BITS THEN { ToUint8(ShiftRight(ToInt8(val1), val2)) }
    ELSE { ToUint8(ShiftRight(ToInt8(val1), val2 % INT_BITS)),
           ToUint8(ShiftRight(ToInt8(val1), INT_BITS - 1)) }

\* result = val1 + val2, val1 - val2, val1 * val2, stored in a uint8_t.
alu_add(val1, val2) == ToUint8(val1 + val2)

\* Faulty variant: the operands of the subtraction exchanged.
alu_sub_swapped(val1, val2) == ToUint8(val2 - val1)

alu_sub(val1, val2) == ToUint8(val1 - val2)

alu_mul(val1, val2) == ToUint8(val1 * val2)

\* The values `result` can hold after the switch, for the opcodes that
\* reach the write-back.
alu_results(p, opcode, val1, val2, immediate) ==
    CASE opcode = 0  -> { alu_add(val1, val2) }
      [] opcode = 1  -> { alu_sub(val1, val2) }
      [] opcode = 2  -> { alu_mul(val1, val2) }
      [] opcode = 3  -> { ToUint8(immediate) }
      [] opcode = 5  -> { BitAnd(val1, val2) }
      [] opcode = 6  -> { BitXor(val1, val2) }
      [] opcode = 8  -> sal_results(val1, val2)
      [] opcode = 9  -> sar_results(val1, val2)
      [] opcode = 10 -> { mem_read_data(p, ToUint16(immediate)) }

WriteBackOpcodes == {0, 1, 2, 3, 5, 6, 8, 9, 10}

\* Faulty variant: the write-back without the test for register 0.
write_back_unguarded(p, rs, result) ==
    [p EXCEPT !.Register = store_put(@, rs, result)]

\* Faulty variant: the result written to the second register of the instruction
\* as well.
write_back_rs_and_rt(p, rs, result) ==
    LET q == IF rs # 0 THEN [p EXCEPT !.Register = store_put(@, rs, result)] ELSE p
    IN  IF p.ID_EX.rt # 0
        THEN [q EXCEPT !.Register = store_put(@, p.ID_EX.rt, result)] ELSE q

\* if (rs != 0) Register[rs] = result;
write_back(p, rs, result) ==
    IF rs # 0 THEN [p EXCEPT !.Register = store_put(@, rs, result)] ELSE p

\* PC = ID_EX.pc + 1 + immediate
\* Faulty variant: a taken branch that redirects to the branch's own address.
beqz_target_self(pc, immediate) == ToUint16(pc)

\* p->PC = p->ID_EX.pc + 1 + immediate
beqz_target(pc, immediate) == ToUint16(pc + 1 + immediate)

\* Faulty variant: the two bytes of the branch target exchanged.
br_target_swapped(hi, lo) == ToUint16(BitOr(lo * TWO8, hi))

\* PC = ((uint16_t)Register[rs] << 8) | Register[rt]
br_target(hi, lo) == ToUint16(BitOr(hi * TWO8, lo))

\* Faulty variant: a taken branch that leaves the instruction fetched after it in
\* the IF/ID latch.
flush_keeps_IF_ID(p) == [p EXCEPT !.ID_EX.valid = FALSE]

flush(p) == [p EXCEPT !.IF_ID.valid = FALSE, !.ID_EX.valid = FALSE]

\* Faulty variant: the flag-update of the common path also made on the path that
\* skips the write-back.
skip_write_back_flags(p, result, val1, val2, opcode) ==
    update_flags(p, result, val1, val2, opcode)

\* flag = true: the block `if (!flag) { write-back; update_flags }` is
\* skipped (result is still 0).
skip_write_back(p, result, val1, val2, opcode) == p

\* The set of states execute can leave (one state, except where the shift
\* count is undefined).
execute(p) ==
    IF ~p.ID_EX.valid THEN {p}
    ELSE LET opcode    == ToUint8(p.ID_EX.opcode)
             rs        == ToUint8(p.ID_EX.rs)
             rt        == ToUint8(p.ID_EX.rt)
             immediate == ToInt8(p.ID_EX.imm)
             val1      == p.ID_EX.valueRS
             val2      == select_val2(opcode, p.ID_EX.valueRT, immediate)
             retire(q) == [q EXCEPT !.ID_EX.valid = FALSE]
         IN  CASE opcode \in WriteBackOpcodes ->
                    { retire(update_flags(write_back(p, rs, result),
                                          result, val1, val2, opcode))
                      : result \in alu_results(p, opcode, val1, val2, immediate) }
               [] opcode = 11 ->
                    { retire(skip_write_back(
                          mem_write_data(p, ToUint16(immediate), Reg(p, rs)),
                          0, val1, val2, opcode)) }
               [] opcode = 4 ->
                    IF Reg(p, rs) = 0
                    THEN { flush([p EXCEPT !.PC = beqz_target(p.ID_EX.pc, immediate)]) }
                    ELSE { retire(skip_write_back(p, 0, val1, val2, opcode)) }
               [] opcode = 7 ->
                    { flush([p EXCEPT !.PC = br_target(Reg(p, rs), Reg(p, rt))]) }
               [] OTHER -> { retire(skip_write_back(p, 0, val1, val2, opcode)) }

(***************************************************************************)
(* process_cycle and the run loop of main.                                 *)
(***************************************************************************)
\* Faulty variant: a shadow validity bit that is only ever set.
ex_snapshot_sticky(p) ==
    [p EXCEPT !.EX_instr = p.ID_EX.instr,
              !.EX_pc    = p.ID_EX.pc,
              !.EX_valid = p.EX_valid \/ p.ID_EX.valid]

\* EX_instr, EX_pc, EX_valid: what execute is about to process.
ex_snapshot(p) ==
    [p EXCEPT !.EX_instr = p.ID_EX.instr,
              !.EX_pc    = p.ID_EX.pc,
              !.EX_valid = p.ID_EX.valid]

\* if (p->PC < 1024) fetch(p);
cycle_fetch(p) == IF p.PC < INSTR_MEM_SIZE THEN fetch(p) ELSE p

\* One whole process_cycle: the states it can leave.
process_cycle(p) == { cycle_fetch(decode(q)) : q \in execute(ex_snapshot(p)) }

\* Faulty variant: the test without the ID/EX latch.
drained_ignores_ID_EX(p) ==
    ~p.EX_valid /\ ~p.IF_ID.valid /\ p.PC >= INSTR_MEM_SIZE

\* main's test after each process_cycle.
drained(p) ==
    ~p.EX_valid /\ ~p.IF_ID.valid /\ ~p.ID_EX.valid /\ p.PC >= INSTR_MEM_SIZE

(***************************************************************************)
(* The array elements each stage touches: the indices at which fetch reads *)
(* instr_mem, decode reads Register, and execute reads or writes Register  *)
(* and data_mem, in the state the stage starts from.                       *)
(***************************************************************************)
\* instr_mem[p->PC], under the guards of process_cycle and fetch.
fetch_instr_indices(p) == IF p.PC < INSTR_MEM_SIZE THEN {p.PC} ELSE {}

\* Register[E.rs] and Register[E.rt]
decode_reg_indices(p) ==
    IF p.IF_ID.valid THEN {decode(p).ID_EX.rs, decode(p).ID_EX.rt} ELSE {}

\* Register[rs] (write-back, STR, BEQZ, BR) and Register[rt] (BR)
execute_reg_indices(p) ==
    IF ~p.ID_EX.valid THEN {}
    ELSE LET opcode == ToUint8(p.ID_EX.opcode)
             rs     == ToUint8(p.ID_EX.rs)
             rt     == ToUint8(p.ID_EX.rt)
         IN  CASE opcode \in WriteBackOpcodes -> IF rs # 0 THEN {rs} ELSE {}
               [] opcode \in {11, 4}          -> {rs}
               [] opcode = 7                  -> {rs, rt}
               [] OTHER                       -> {}

\* data_mem[addr] in mem_read_data (LDR) and mem_write_data (STR), under
\* their bound tests.
execute_data_indices(p) ==
    IF p.ID_EX.valid /\ ToUint8(p.ID_EX.opcode) \in {10, 11}
    THEN LET addr == ToUint16(ToInt8(p.ID_EX.imm))
         IN  IF addr >= DATA_MEM_SIZE THEN {} ELSE {addr}
    ELSE {}

(***************************************************************************)
(* The reference machine of the equivalence claim: a second Processor,     *)
(* seq, on which each instruction is fetched, decoded and executed         *)
(* completely before the next one is fetched.  It takes one instruction    *)
(* each time the pipeline executes one, and plays no part in the           *)
(* pipeline's own transitions.                                             *)
(***************************************************************************)
seq_step(q) == execute(ex_snapshot(decode(fetch(q))))

seq_halted(q) == q.PC >= INSTR_MEM_SIZE \/ store_get(q.instr_mem, q.PC) = 0

arch(p) == [Register |-> p.Register, SREG |-> p.SREG, data_mem |-> p.data_mem]

\* Where execute has a choice (an undefined shift count), the reference
\* machine takes the outcome the pipeline took, when it has that outcome.
seq_follow(q, p) ==
    LET S == seq_step(q)
        M == { r \in S : arch(r) = arch(p) }
    IN  IF M # {} THEN M ELSE S

(***************************************************************************)
(* State machine.  step is the position in main's loop:                    *)
(*   "execute" -> "decode" -> "fetch"  (process_cycle)  -> "test" (main's  *)
(*   test of the drained condition) -> "execute" or "done".                *)
(***************************************************************************)
loaded(file) == mem_load_program(mem_init(proc_init), file)

\* No direct call of a data-store function has been made.
no_call == [fn |-> "none", addr |-> 0, data |-> 0, ret |-> 0]

Init ==
    /\ text \in Programs
    /\ \A i \in 1..Len(text) : line_accepted(text[i])
    /\ cpu = loaded(text)
    /\ seq = cpu
    /\ step = "execute"
    /\ call = no_call

Execute ==
    /\ step = "execute"
    /\ cpu' \in execute(ex_snapshot(cpu))
    /\ seq' \in IF cpu.ID_EX.valid THEN seq_follow(seq, cpu') ELSE {seq}
    /\ step' = "decode"
    /\ UNCHANGED <<text, call>>

Decode ==
    /\ step = "decode"
    /\ cpu' = decode(cpu)
    /\ step' = "fetch"
    /\ UNCHANGED <<seq, text, call>>

Fetch ==
    /\ step = "fetch"
    /\ cpu' = cycle_fetch(cpu)
    /\ step' = "test"
    /\ UNCHANGED <<seq, text, call>>

LoopTest ==
    /\ step = "test"
    /\ step' = IF drained(cpu) THEN "done" ELSE "execute"
    /\ UNCHANGED <<cpu, seq, text, call>>

Next == Execute \/ Decode \/ Fetch \/ LoopTest

Spec == Init /\ [][Next]_vars

\* The execute stage of the pipeline alone, without the step of the reference
\* machine that accompanies it: in a behaviour of Next its steps are the
\* Execute steps, and it is enabled exactly when Execute is.
ExecuteStage ==
    /\ step = "execute"
    /\ cpu' \in execute(ex_snapshot(cpu))
    /\ step' = "decode"
    /\ UNCHANGED <<text, call>>

\* The run loop of main is one sequential thread: while a step of the loop
\* is possible the next one is taken.
Fairness ==
    /\ WF_<<cpu, step>>(ExecuteStage)
    /\ WF_vars(Decode)
    /\ WF_vars(Fetch)
    /\ WF_vars(LoopTest)

SpecLive == Init /\ [][Next]_vars /\ Fairness

(***************************************************************************)
(* SpecALU: the same machine, started where one arithmetic, logic, shift   *)
(* or move instruction is about to execute on arbitrary 8-bit operands.    *)
(* The program is the single line; Register[1], Register[2] and SREG hold  *)
(* values an earlier part of a program can leave there; the first two      *)
(* cycles (fetch, then decode and the fetch of the end-of-program word)    *)
(* have been taken.                                                        *)
(***************************************************************************)
Byte == 0..(TWO8 - 1)

ALULines ==
    { RR(op, 1, 2) : op \in {"ADD", "SUB", "MUL", "EOR"} }
      \cup { RI(op, 1, v) : op \in {"MOVI", "ANDI", "SAL", "SAR", "LDR"}, v \in -32..31 }

\* SREG before the instruction: all clear, or C, V, N and S set (as
\* SUB 1 - 2 leaves them).
ALUPriorSREG == {0, FLAG_C + FLAG_V + FLAG_N + FLAG_S}

alu_start(base, a, b, sreg) ==
    [base EXCEPT !.Register = store_put(store_put(@, 1, a), 2, b),
                 !.SREG = sreg]

InitALU ==
    /\ \E line \in ALULines :
         LET base == loaded(<<line>>)
         IN  \E a \in Byte, sreg \in ALUPriorSREG :
               \E b \in IF line.reg2 THEN Byte ELSE {0} :
                  /\ seq = alu_start(base, a, b, sreg)
                  /\ \E c1 \in process_cycle(seq) : cpu \in process_cycle(c1)
                  /\ text = <<line>>
    /\ step = "execute"
    /\ call = no_call

SpecALU == InitALU /\ [][Next]_vars

(***************************************************************************)
(* SpecRaw: the same machine run on an instruction store that was filled   *)
(* word by word instead of by the loader, so that words with the opcodes   *)
(* 12..15, which the loader never produces, reach fetch, decode and        *)
(* execute.  instr_mem is a public field of Processor; at most MaxRawLen   *)
(* words from RawWords are placed from address 0 upwards.                  *)
(***************************************************************************)
\* 0xC041, 0xDFFF, 0xE040, 0xF042: opcodes 12, 13, 14, 15;
\* MOVI R1 1, MOVI R2 2, SUB R2 R1, ADD R1 R2, STR R1 10;
\* MOVI R1 4, BR R1 R2, BR R2 R2, BEQZ R0 62: branches to addresses at and
\* beyond the end of the instruction store.
RawWords ==
    {49217, 57343, 57408, 61506, 12353, 12418, 4225, 66, 45130,
     12356, 28738, 28802, 16446}

RawStores == UNION { [1..n -> RawWords] : n \in 1..MaxRawLen }

RECURSIVE store_words(_, _, _)
store_words(m, words, addr) ==
    IF addr >= Len(words) THEN m
    ELSE store_words(store_put(m, addr, words[addr + 1]), words, addr + 1)

InitRaw ==
    /\ \E words \in RawStores :
          cpu = [mem_init(proc_init) EXCEPT
                   !.instr_mem = store_words(@, words, 0)]
    /\ seq = cpu
    /\ step = "execute"
    /\ text = << >>
    /\ call = no_call

SpecRaw == InitRaw /\ [][Next]_vars

SpecRawLive == InitRaw /\ [][Next]_vars /\ Fairness

(***************************************************************************)
(* SpecRT: the same machine on the two-line program STR Rs A ; LDR Rt A,   *)
(* for every byte V in Register[s].  The other register of the pair and    *)
(* the data store hold values earlier instructions can have left: Rt       *)
(* differs from V, the addressed cell holds an old byte and its neighbour  *)
(* another one.                                                            *)
(***************************************************************************)
RTRegs == {1, 2, 63}

\* The address as written in the program file.
RTAddrs == {0, 10, 31, 32, 63, 100, 2047}

rt_start(base, s, t, V, A) ==
    [base EXCEPT
       !.Register = store_put(store_put(@, t, ToUint8(V + 1)), s, V),
       !.data_mem = store_put(store_put(@, (A + 1) % 64, 90), A % 64, 195)]

InitRT ==
    /\ \E s \in RTRegs, t \in RTRegs, A \in RTAddrs, V \in Byte :
          /\ text = << RI("STR", s, A), RI("LDR", t, A) >>
          /\ cpu = rt_start(loaded(text), s, t, V, A)
    /\ seq = cpu
    /\ step = "execute"
    /\ call = no_call

SpecRT == InitRT /\ [][Next]_vars

(***************************************************************************)
(* SpecMem: the data-store functions called directly, for every 16-bit     *)
(* address.  The address is drawn at the start and kept in call.addr; each *)
(* step is one call of mem_write_data (with a byte from MemData) or of     *)
(* mem_read_data at that address.  The data store holds bytes that earlier *)
(* stores left in its first and last cell.                                 *)
(***************************************************************************)
Addr16 == 0..(TWO16 - 1)

MemData == {0, 1, 255}

mem_start(p) ==
    [p EXCEPT !.data_mem = store_put(store_put(@, 0, 170), DATA_MEM_SIZE - 1, 85)]

InitMem ==
    /\ cpu = mem_start(mem_init(proc_init))
    /\ seq = cpu
    /\ step = "call"
    /\ text = << >>
    /\ \E addr \in Addr16 : call = [no_call EXCEPT !.addr = addr]

MemWrite ==
    /\ step = "call"
    /\ \E data \in MemData :
          /\ cpu' = mem_write_data(cpu, call.addr, data)
          /\ call' = [call EXCEPT !.fn = "mem_write_data", !.data = data]
    /\ UNCHANGED <<seq, step, text>>

MemRead ==
    /\ step = "call"
    /\ call' = [call EXCEPT !.fn = "mem_read_data",
                            !.ret = mem_read_data(cpu, call.addr)]
    /\ UNCHANGED <<cpu, seq, step, text>>

NextMem == MemWrite \/ MemRead

SpecMem == InitMem /\ [][NextMem]_vars

(***************************************************************************)
(* Vocabulary of the claims.                                               *)
(***************************************************************************)
\* The instruction in the EX shadow record went through execute in the
\* step that has just been taken; cpu.ID_EX still holds its decoded fields.
JustExecuted == step = "decode" /\ cpu.EX_valid

\* decode has just written the ID/EX latch.
JustDecoded == step = "fetch" /\ cpu.ID_EX.valid

\* execute is about to process the instruction in the ID/EX latch.
AboutToExecute == step = "execute" /\ cpu.ID_EX.valid

\* A 6-bit field read as a two's-complement number in -32..31.
SignExtend6(x) == IF x >= 32 THEN x - 64 ELSE x

Low6(instruction) == instruction % 64

FlagSet(sreg, flag) == (sreg \div flag) % 2 = 1

(***************************************************************************)
(* C1.  Register[0] is 0 in every reachable state: no instruction writes   *)
(* register index 0.                                                       *)
(***************************************************************************)
C1_RegisterZeroNeverWritten == Reg(cpu, 0) = 0

\* MOVI R0 3 has gone through execute.
C1_Witness ==
    /\ JustExecuted
    /\ cpu.ID_EX.opcode = 3 /\ cpu.ID_EX.rs = 0 /\ cpu.ID_EX.imm = 3

(***************************************************************************)
(* C2.  Every instruction that reaches execute finds in the ID/EX latch    *)
(* the operand values the register file holds at that moment, and the      *)
(* pipeline behaves as the sequential reference machine: the instruction   *)
(* it executes is the one the reference machine executes next, registers,  *)
(* SREG and data memory agree after every executed instruction, and when   *)
(* the run loop stops the reference machine has halted too.                *)
(***************************************************************************)
C2_SnapshotIsLive ==
    AboutToExecute =>
        /\ cpu.ID_EX.valueRS = Reg(cpu, cpu.ID_EX.rs)
        /\ cpu.ID_EX.valueRT = Reg(cpu, cpu.ID_EX.rt)

C2_SameOrder ==
    AboutToExecute =>
        /\ ~seq_halted(seq)
        /\ seq.PC = cpu.ID_EX.pc
        /\ store_get(seq.instr_mem, seq.PC) = cpu.ID_EX.instr

C2_SameResult ==
    /\ arch(cpu) = arch(seq)
    /\ step = "done" => seq_halted(seq)

C2_PipelineIsSequential == C2_SnapshotIsLive /\ C2_SameOrder /\ C2_SameResult

\* MOVI R1 1 ; MOVI R2 2 ; ADD R1 R2 has run to the end: each instruction
\* used the result of the one right before it.
C2_Witness ==
    /\ step = "done"
    /\ Reg(cpu, 1) = 3 /\ Reg(cpu, 2) = 2
    /\ cpu.EX_pc = 2

(***************************************************************************)
(* C3.  A BEQZ fetched at P whose source register holds 0 and whose low 6  *)
(* bits encode the immediate Imm in -32..31 leaves execute with            *)
(* PC = P + 1 + Imm (as a 16-bit value) and both latches invalid.          *)
(***************************************************************************)
C3_BeqzTakenTarget ==
    (JustExecuted /\ cpu.ID_EX.opcode = 4 /\ Reg(cpu, cpu.ID_EX.rs) = 0) =>
        /\ cpu.PC = ToUint16(cpu.EX_pc + 1 + SignExtend6(Low6(cpu.EX_instr)))
        /\ ~cpu.IF_ID.valid
        /\ ~cpu.ID_EX.valid

(***************************************************************************)
(* C4.  decode writes an ID/EX latch with opcode = bits 15..12 and         *)
(* rs = bits 11..6; for opcodes 3, 4, 5, 8, 9, 10, 11 imm is the low 6     *)
(* bits sign-extended from bit 5, rt = 0 and valueRT = Register[0]; for    *)
(* every other opcode rt is the low 6 bits (0..63) and imm = 0.            *)
(***************************************************************************)
C4_DecodeFields ==
    JustDecoded =>
        LET w == cpu.ID_EX.instr
            E == cpu.ID_EX
        IN  /\ E.opcode = (w \div 4096) % 16
            /\ E.rs = (w \div 64) % 64
            /\ IF E.opcode \in {3, 4, 5, 8, 9, 10, 11}
               THEN /\ E.imm = SignExtend6(Low6(w))
                    /\ E.imm \in -32..31
                    /\ E.rt = 0
                    /\ E.valueRT = Reg(cpu, 0)
               ELSE /\ E.rt = Low6(w)
                    /\ E.imm = 0

(***************************************************************************)
(* C5.  Executing BR Rs,Rt sets PC to Register[rs] * 256 + Register[rt],   *)
(* invalidates the IF/ID and the ID/EX latch, and changes no register, no  *)
(* data-memory cell and no status flag.                                    *)
(***************************************************************************)
C5_BrStep ==
    (AboutToExecute /\ cpu.ID_EX.opcode = 7) =>
        LET rs == (cpu.ID_EX.instr \div 64) % 64
            rt == Low6(cpu.ID_EX.instr)
        IN  /\ cpu'.PC = Reg(cpu, rs) * 256 + Reg(cpu, rt)
            /\ ~cpu'.IF_ID.valid
            /\ ~cpu'.ID_EX.valid
            /\ cpu'.Register = cpu.Register
            /\ cpu'.data_mem = cpu.data_mem
            /\ cpu'.SREG = cpu.SREG

C5_BrEffect == [][C5_BrStep]_vars

\* BR R1 R2 has gone through execute with R1 = 0x01 and R2 = 0x02.
C5_Witness ==
    /\ JustExecuted
    /\ cpu.ID_EX.opcode = 7
    /\ Reg(cpu, 1) = 1 /\ Reg(cpu, 2) = 2
    /\ cpu.PC = 258

(***************************************************************************)
(* Operands and flags of the instruction that has just executed.           *)
(***************************************************************************)
OperandA == cpu.ID_EX.valueRS

OperandB == cpu.ID_EX.valueRT

Signed8(x) == IF x >= 128 THEN x - 256 ELSE x

FlagC == FlagSet(cpu.SREG, FLAG_C)

FlagV == FlagSet(cpu.SREG, FLAG_V)

FlagN == FlagSet(cpu.SREG, FLAG_N)

FlagS == FlagSet(cpu.SREG, FLAG_S)

FlagZ == FlagSet(cpu.SREG, FLAG_Z)

(***************************************************************************)
(* C6.  After every ADD or SUB the Sign flag is set iff exactly one of     *)
(* the Negative and Overflow flags is set.                                 *)
(***************************************************************************)
C6_SignIsNegativeXorOverflow ==
    (JustExecuted /\ cpu.ID_EX.opcode \in {0, 1}) => (FlagS <=> (FlagN # FlagV))

(***************************************************************************)
(* C7.  After every ADD or SUB the Overflow flag is set iff the exact      *)
(* result on the operands read as signed 8-bit values is outside           *)
(* -128..127.                                                              *)
(***************************************************************************)
C7_OverflowIsSignedOverflow ==
    (JustExecuted /\ cpu.ID_EX.opcode \in {0, 1}) =>
        LET exact == IF cpu.ID_EX.opcode = 0
                     THEN Signed8(OperandA) + Signed8(OperandB)
                     ELSE Signed8(OperandA) - Signed8(OperandB)
        IN  FlagV <=> (exact \notin -128..127)

(***************************************************************************)
(* C8.  After ADD the Carry flag is set iff the unsigned sum of the        *)
(* operands exceeds 255; after SUB it is set iff the first operand is      *)
(* smaller than the second as unsigned 8-bit values (a borrow).            *)
(***************************************************************************)
C8_CarryIsCarryOrBorrow ==
    /\ (JustExecuted /\ cpu.ID_EX.opcode = 0) =>
          (FlagC <=> (OperandA + OperandB > 255))
    /\ (JustExecuted /\ cpu.ID_EX.opcode = 1) =>
          (FlagC <=> (OperandA < OperandB))

(***************************************************************************)
(* C9.  For operand values a (of Rs) and b (of Rt) and rs # 0, ADD, SUB    *)
(* and MUL leave Register[rs] = (a + b) mod 256, (a - b) mod 256 and       *)
(* (a * b) mod 256.                                                        *)
(***************************************************************************)
C9_ArithmeticResult ==
    (JustExecuted /\ cpu.ID_EX.rs # 0) =>
        /\ cpu.ID_EX.opcode = 0 => Reg(cpu, cpu.ID_EX.rs) = (OperandA + OperandB) % 256
        /\ cpu.ID_EX.opcode = 1 => Reg(cpu, cpu.ID_EX.rs) = (OperandA - OperandB) % 256
        /\ cpu.ID_EX.opcode = 2 => Reg(cpu, cpu.ID_EX.rs) = (OperandA * OperandB) % 256

\* SUB 3 - 5 has left 254 in R1.
C9_Witness ==
    /\ JustExecuted
    /\ cpu.ID_EX.opcode = 1 /\ cpu.ID_EX.rs = 1
    /\ OperandA = 3 /\ OperandB = 5
    /\ Reg(cpu, 1) = 254

C11_OtherStep ==
    (AboutToExecute /\ cpu.ID_EX.opcode \in {3, 10, 11, 4, 7}) =>
        cpu'.SREG = cpu.SREG

C11_OnlyArithmeticUpdatesFlags == [][C11_OtherStep]_vars

(***************************************************************************)
(* C12.  A BEQZ whose source register is nonzero leaves the program        *)
(* counter and the IF/ID latch untouched, writes no register, and          *)
(* recomputes the status register from the zero result: afterwards Z = 1   *)
(* and C = V = N = S = 0.                                                  *)
(***************************************************************************)
BeqzNotTaken ==
    AboutToExecute /\ cpu.ID_EX.opcode = 4 /\ Reg(cpu, cpu.ID_EX.rs) # 0

C12_OriginalStep ==
    BeqzNotTaken =>
        /\ cpu'.PC = cpu.PC
        /\ cpu'.IF_ID = cpu.IF_ID
        /\ cpu'.Register = cpu.Register
        /\ cpu'.SREG = FLAG_Z

C12_BeqzNotTakenRecomputesFlags == [][C12_OriginalStep]_vars

\* C12 as amended: a BEQZ whose source register is nonzero leaves the
\* program counter, the IF/ID latch, every register, every data-memory
\* cell and the status register untouched; it only leaves the ID/EX latch
\* invalid.
C12_AmendedStep ==
    BeqzNotTaken =>
        /\ cpu'.PC = cpu.PC
        /\ cpu'.IF_ID = cpu.IF_ID
        /\ cpu'.Register = cpu.Register
        /\ cpu'.data_mem = cpu.data_mem
        /\ cpu'.SREG = cpu.SREG
        /\ ~cpu'.ID_EX.valid

C12_BeqzNotTakenChangesNothing == [][C12_AmendedStep]_vars

\* MOVI R2 2 ; SUB R1 R2 ; BEQZ R1 1: the BEQZ has gone through execute
\* with R1 = 254 and the flags SUB left (C, V, N, S) are still there.
C12_Witness ==
    /\ JustExecuted
    /\ cpu.ID_EX.opcode = 4 /\ cpu.ID_EX.rs = 1
    /\ Reg(cpu, 1) = 254
    /\ cpu.SREG = FLAG_C + FLAG_V + FLAG_N + FLAG_S
    /\ cpu.PC = INSTR_MEM_SIZE
    /\ ~cpu.ID_EX.valid

(***************************************************************************)
(* C13.  An instruction whose opcode field is 12..15 that reaches execute  *)
(* raises no error, writes no register, no memory cell and no program      *)
(* counter, updates the status register (flags recomputed from a zero      *)
(* result: only Z set), and leaves the ID/EX latch invalid.                *)
(***************************************************************************)
UndefinedAtExecute ==
    AboutToExecute /\ (cpu.ID_EX.instr \div 4096) \in 12..15

C13_OriginalStep ==
    UndefinedAtExecute =>
        /\ cpu'.Register = cpu.Register
        /\ cpu'.data_mem = cpu.data_mem
        /\ cpu'.instr_mem = cpu.instr_mem
        /\ cpu'.PC = cpu.PC
        /\ cpu'.SREG = FLAG_Z
        /\ ~cpu'.ID_EX.valid

C13_AmendedStep ==
    UndefinedAtExecute =>
        /\ cpu'.Register = cpu.Register
        /\ cpu'.data_mem = cpu.data_mem
        /\ cpu'.instr_mem = cpu.instr_mem
        /\ cpu'.PC = cpu.PC
        /\ cpu'.IF_ID = cpu.IF_ID
        /\ cpu'.SREG = cpu.SREG
        /\ ~cpu'.ID_EX.valid
        /\ step' = "decode"

StrImm == SignExtend6(Low6(cpu.ID_EX.instr))

C14_StrStep ==
    (AboutToExecute /\ cpu.ID_EX.opcode = 11 /\ StrImm \in 0..(DATA_MEM_SIZE - 1)) =>
        LET rs == (cpu.ID_EX.instr \div 64) % 64
        IN  /\ store_get(cpu'.data_mem, StrImm) = Reg(cpu, rs)
            /\ \A a \in (DOMAIN cpu.data_mem \cup DOMAIN cpu'.data_mem) \ {StrImm} :
                  store_get(cpu'.data_mem, a) = store_get(cpu.data_mem, a)
            /\ cpu'.Register = cpu.Register
            /\ cpu'.SREG = cpu.SREG
            /\ cpu'.PC = cpu.PC
            /\ cpu'.IF_ID = cpu.IF_ID

C15_RoundTripStep ==
    /\ (AboutToExecute /\ cpu.ID_EX.pc = 0 /\ cpu.ID_EX.opcode = 11) =>
          /\ cpu'.Register = cpu.Register
          /\ step' = "decode"
    /\ (AboutToExecute /\ cpu.ID_EX.pc = 1 /\ cpu.ID_EX.opcode = 10) =>
          /\ cpu.EX_pc = 0
          /\ Reg(cpu', text[2].r1) = Reg(cpu, text[1].r1)
    /\ (step = "test" /\ step' = "done") =>
          /\ cpu.ID_EX.pc = 1 /\ cpu.ID_EX.opcode = 10
          /\ Reg(cpu, text[2].r1) = store_get(cpu.data_mem, text[1].arg % 64)

C15_StoreLoadRoundTrip == [][C15_RoundTripStep]_vars

\* STR R1 63 ; LDR R2 63 has run to the end with V = 200: R2 = 200.
C15_Witness ==
    /\ step = "done"
    /\ text = << RI("STR", 1, 63), RI("LDR", 2, 63) >>
    /\ Reg(cpu, 1) = 200 /\ Reg(cpu, 2) = 200
    /\ store_get(cpu.data_mem, 63) = 200

(***************************************************************************)
(* C16.  For every 16-bit address at or beyond 2048, mem_write_data leaves *)
(* every data-memory cell (and the rest of the processor) unchanged and    *)
(* mem_read_data returns 0; both return without signalling anything, and   *)
(* further calls can follow.                                               *)
(***************************************************************************)
C16_CallStep ==
    (step = "call" /\ call.addr >= DATA_MEM_SIZE) =>
        /\ cpu' = cpu
        /\ call'.fn = "mem_read_data" => call'.ret = 0
        /\ call'.addr = call.addr
        /\ step' = "call"

C16_OutOfRangeAccessNeutralised == [][C16_CallStep]_vars

\* mem_write_data(0xFFFF, 255) then mem_read_data(0xFFFF): the read
\* returned 0 and the store holds what it held before.
C16_Witness ==
    /\ call = [fn |-> "mem_read_data", addr |-> 65535, data |-> 255, ret |-> 0]
    /\ cpu.data_mem = mem_start(proc_init).data_mem

(***************************************************************************)
(* C17.  Fetch with PC < 1024: if instr_mem[PC] is the all-zero word, PC   *)
(* becomes 1024 and the IF/ID latch is not written; otherwise IF/ID        *)
(* becomes {instr_mem[PC], PC, valid} and PC increases by exactly one.     *)
(* Fetch with PC >= 1024 changes nothing.  In no case does fetch touch     *)
(* registers, flags, data memory or the ID/EX latch.                       *)
(***************************************************************************)
C17_FetchStep ==
    (step = "fetch") =>
        /\ IF cpu.PC < 1024
           THEN IF store_get(cpu.instr_mem, cpu.PC) = 0
                THEN /\ cpu'.PC = 1024
                     /\ cpu'.IF_ID = cpu.IF_ID
                ELSE /\ cpu'.IF_ID = [instr |-> store_get(cpu.instr_mem, cpu.PC),
                                      pc |-> cpu.PC, valid |-> TRUE]
                     /\ cpu'.PC = cpu.PC + 1
           ELSE cpu' = cpu
        /\ cpu'.Register = cpu.Register
        /\ cpu'.SREG = cpu.SREG
        /\ cpu'.data_mem = cpu.data_mem
        /\ cpu'.instr_mem = cpu.instr_mem
        /\ cpu'.ID_EX = cpu.ID_EX

C17_FetchContract == [][C17_FetchStep]_vars

\* The fetch after the one-line program's only instruction has been decoded:
\* it read the all-zero word at address 1, set PC to 1024 and left in IF/ID
\* the (invalidated) entry of the instruction at address 0.
C17_Witness ==
    /\ step = "test"
    /\ Len(text) = 1
    /\ cpu.PC = 1024
    /\ cpu.IF_ID.pc = 0 /\ ~cpu.IF_ID.valid /\ cpu.IF_ID.instr # 0
    /\ cpu.ID_EX.valid /\ cpu.ID_EX.pc = 0

(***************************************************************************)
(* C18.  The run driver stops only when the pipeline has fully drained:    *)
(* it stops after a process_cycle exactly when the EX shadow record, the   *)
(* IF/ID latch and the ID/EX latch are all invalid and PC >= 1024, and     *)
(* whenever that holds nothing is pending: the reference machine, which    *)
(* executes every instruction on the program's path once, has no           *)
(* instruction left and agrees on registers, SREG and data memory, and one *)
(* more process_cycle would change no register, flag, memory cell or PC.   *)
(***************************************************************************)
AllInvalidAtBound ==
    /\ ~cpu.EX_valid /\ ~cpu.IF_ID.valid /\ ~cpu.ID_EX.valid
    /\ cpu.PC >= 1024

NothingPending ==
    /\ seq_halted(seq)
    /\ arch(seq) = arch(cpu)
    /\ \A q \in process_cycle(cpu) : arch(q) = arch(cpu) /\ q.PC = cpu.PC

C18_TestStep ==
    (step = "test") =>
        /\ (step' = "done") <=> AllInvalidAtBound
        /\ AllInvalidAtBound => NothingPending

C18_StopsOnlyWhenDrained == [][C18_TestStep]_vars

\* MOVI R1 1 ; MOVI R2 2 ; STR R1 10 has stopped: the store, the last
\* instruction fetched, has made its update.
C18_Witness ==
    /\ step = "done"
    /\ Len(text) = 3
    /\ cpu.ID_EX.pc = 2 /\ cpu.ID_EX.opcode = 11
    /\ Reg(cpu, 1) = 1 /\ Reg(cpu, 2) = 2
    /\ store_get(cpu.data_mem, 10) = 1

(***************************************************************************)
(* C19.  No instruction is duplicated or silently dropped.  An instruction *)
(* that fetch put into IF/ID in one cycle is, in the next cycle, either    *)
(* flushed by the taken BEQZ or the BR that executes in that cycle, or     *)
(* moved by decode into ID/EX (IF/ID becoming invalid); in the cycle after *)
(* that it performs its execute step, which empties ID/EX, so it executes  *)
(* exactly once.  When ID/EX holds no valid instruction, execute changes   *)
(* no register, flag, data-memory cell or PC, so a flushed instruction     *)
(* never has an effect.  The driver does not stop while a latch is valid.  *)
(***************************************************************************)
FlushExecutes ==
    /\ cpu.ID_EX.valid
    /\ \/ cpu.ID_EX.opcode = 7
       \/ cpu.ID_EX.opcode = 4 /\ Reg(cpu, cpu.ID_EX.rs) = 0

SameArchAndPC == arch(cpu') = arch(cpu) /\ cpu'.PC = cpu.PC

C19_Step ==
    /\ (step = "execute") =>
          /\ cpu.IF_ID.valid =>
                IF FlushExecutes THEN ~cpu'.IF_ID.valid
                ELSE cpu'.IF_ID = cpu.IF_ID
          /\ ~cpu.IF_ID.valid => ~cpu'.IF_ID.valid
          /\ cpu.ID_EX.valid =>
                /\ ~cpu'.ID_EX.valid
                /\ cpu'.EX_valid /\ cpu'.EX_pc = cpu.ID_EX.pc
                /\ cpu'.EX_instr = cpu.ID_EX.instr
          /\ ~cpu.ID_EX.valid =>
                /\ SameArchAndPC
                /\ ~cpu'.ID_EX.valid /\ ~cpu'.EX_valid
    /\ (step = "decode") =>
          /\ ~cpu.ID_EX.valid
          /\ SameArchAndPC
          /\ ~cpu'.IF_ID.valid
          /\ IF cpu.IF_ID.valid
             THEN /\ cpu'.ID_EX.valid
                  /\ cpu'.ID_EX.instr = cpu.IF_ID.instr
                  /\ cpu'.ID_EX.pc = cpu.IF_ID.pc
             ELSE cpu'.ID_EX = cpu.ID_EX
    /\ (step = "fetch") =>
          /\ ~cpu.IF_ID.valid
          /\ cpu'.ID_EX = cpu.ID_EX
          /\ arch(cpu') = arch(cpu)
    /\ (step = "test") =>
          /\ cpu' = cpu
          /\ (cpu.IF_ID.valid \/ cpu.ID_EX.valid) => step' = "execute"

C19_NoDuplicateNoDrop == [][C19_Step]_vars

\* BEQZ R0 -2 ; MOVI R1 1 has run to the end: the MOVI was fetched (it is
\* the last entry of IF/ID), flushed by the taken BEQZ, and never executed
\* (R1 is 0, the last instruction in ID/EX is the BEQZ).
C19_Witness ==
    /\ step = "done"
    /\ text = << RI("BEQZ", 0, -2), RI("MOVI", 1, 1) >>
    /\ cpu.IF_ID.pc = 1 /\ cpu.IF_ID.instr = 12353 /\ ~cpu.IF_ID.valid
    /\ cpu.ID_EX.pc = 0 /\ cpu.ID_EX.opcode = 4
    /\ Reg(cpu, 1) = 0

(***************************************************************************)
(* C20.  In a program without branches every line the loader accepted      *)
(* (ADD R0 R0 included) is fetched and executed: fetch at an address below *)
(* the number of loaded lines latches that line's word and increments PC,  *)
(* PC is clamped to 1024 only at an address the loader left unused, and    *)
(* when the run stops the last instruction executed is the last line.      *)
(***************************************************************************)
BranchFree == \A i \in 1..Len(text) : text[i].op \notin {"BEQZ", "BR"}

C20_Step ==
    /\ (step = "fetch" /\ BranchFree /\ cpu.PC < Len(text)) =>
          /\ cpu'.IF_ID = [instr |-> encode_line(text[cpu.PC + 1]),
                           pc |-> cpu.PC, valid |-> TRUE]
          /\ cpu'.PC = cpu.PC + 1
    /\ (step = "fetch" /\ BranchFree /\ cpu.PC < 1024 /\ cpu'.PC = 1024) =>
          cpu.PC >= Len(text)
    /\ (step = "test" /\ step' = "done" /\ BranchFree /\ Len(text) > 0) =>
          /\ cpu.ID_EX.pc = Len(text) - 1
          /\ cpu.ID_EX.instr = encode_line(text[Len(text)])

C20_SentinelOnlyInUnusedSlots == [][C20_Step]_vars

(***************************************************************************)
(* C21.  Executing ADD, SUB, MUL, MOVI, ANDI, EOR, SAL, SAR or LDR changes *)
(* nothing but Register[rs] (when rs # 0), SREG and the validity bit of    *)
(* the ID/EX latch: every other register (Register[rt] for rt # rs         *)
(* included), the program counter, the IF/ID latch and the whole data      *)
(* memory are unchanged.                                                   *)
(***************************************************************************)
C21_ResultStep ==
    (AboutToExecute /\ cpu.ID_EX.opcode \in {0, 1, 2, 3, 5, 6, 8, 9, 10}) =>
        LET rs == (cpu.ID_EX.instr \div 64) % 64
        IN  /\ \A i \in (DOMAIN cpu.Register \cup DOMAIN cpu'.Register) \ {rs} :
                  Reg(cpu', i) = Reg(cpu, i)
            /\ rs = 0 => cpu'.Register = cpu.Register
            /\ cpu'.PC = cpu.PC
            /\ cpu'.IF_ID = cpu.IF_ID
            /\ cpu'.data_mem = cpu.data_mem
            /\ cpu'.instr_mem = cpu.instr_mem
            /\ cpu'.ID_EX = [cpu.ID_EX EXCEPT !.valid = FALSE]

C21_ResultGoesToRsOnly == [][C21_ResultStep]_vars

\* MOVI R1 1 ; MOVI R2 2 ; EOR R1 R2: the EOR has left 3 in R1 and R2 is
\* still 2.
C21_Witness ==
    /\ JustExecuted
    /\ cpu.ID_EX.opcode = 6 /\ cpu.ID_EX.rs = 1 /\ cpu.ID_EX.rt = 2
    /\ cpu.ID_EX.valueRS = 1 /\ cpu.ID_EX.valueRT = 2
    /\ Reg(cpu, 1) = 3 /\ Reg(cpu, 2) = 2

(***************************************************************************)
(* C22.  For every 8-bit operand a and shift amount k in 0..7 (rs # 0):    *)
(* SAR leaves Register[rs] = floor(signed(a) / 2^k) mod 256, so that bit 7 *)
(* of the result equals bit 7 of a, and SAL leaves                         *)
(* Register[rs] = (a * 2^k) mod 256.                                       *)
(***************************************************************************)
ShiftAmount == Low6(cpu.EX_instr)

C22_ShiftResults ==
    (JustExecuted /\ cpu.ID_EX.rs # 0 /\ ShiftAmount \in 0..7) =>
        /\ cpu.ID_EX.opcode = 9 =>
              /\ Reg(cpu, cpu.ID_EX.rs) = (Signed8(OperandA) \div (2 ^ ShiftAmount)) % 256
              /\ (Reg(cpu, cpu.ID_EX.rs) >= 128) <=> (OperandA >= 128)
        /\ cpu.ID_EX.opcode = 8 =>
              Reg(cpu, cpu.ID_EX.rs) = (OperandA * (2 ^ ShiftAmount)) % 256

\* SAR R1 2 on 0x90 (-112) has left 0xE4 (-28) in R1.
C22_Witness ==
    /\ JustExecuted
    /\ cpu.ID_EX.opcode = 9 /\ cpu.ID_EX.rs = 1
    /\ ShiftAmount = 2
    /\ OperandA = 144
    /\ Reg(cpu, 1) = 228

(***************************************************************************)
(* C23.  The idle state is absorbing: from any state between two cycles in *)
(* which the IF/ID and ID/EX latches are both invalid and PC >= 1024, a    *)
(* further process_cycle leaves every register, SREG, PC, data memory,     *)
(* instruction memory and both latch validity bits unchanged and sets the  *)
(* EX shadow validity to false, so that the termination condition holds    *)
(* after it and after every later cycle.                                   *)
(***************************************************************************)
Idle == ~cpu.IF_ID.valid /\ ~cpu.ID_EX.valid /\ cpu.PC >= 1024

C23_IdleIsAbsorbing ==
    (step \in {"execute", "test", "done"} /\ Idle) =>
        \A q \in process_cycle(cpu) :
            /\ q.Register = cpu.Register
            /\ q.SREG = cpu.SREG
            /\ q.PC = cpu.PC
            /\ q.data_mem = cpu.data_mem
            /\ q.instr_mem = cpu.instr_mem
            /\ ~q.IF_ID.valid /\ ~q.ID_EX.valid
            /\ ~q.EX_valid
            /\ process_cycle(q) = {q}

\* MOVI R1 1 ; SUB R2 R1 ; BR R2 R2 has branched to 0xFFFF; the cycle after
\* the branch started idle with the shadow record still valid, cleared it,
\* and the run loop stopped.
C23_Witness ==
    /\ step = "done"
    /\ cpu.PC = 65535
    /\ Reg(cpu, 1) = 1 /\ Reg(cpu, 2) = 255
    /\ cpu.EX_instr = 28802 /\ ~cpu.EX_valid

(***************************************************************************)
(* C24.  At the end of every process_cycle: if the IF/ID latch is valid    *)
(* then PC = IF_ID.pc + 1, and if both latches are valid then              *)
(* IF_ID.pc = ID_EX.pc + 1.  A latch is valid at the end of a cycle only   *)
(* if it was written during that cycle: ID/EX is invalid when decode       *)
(* starts and IF/ID is invalid when fetch starts, so the pipeline never    *)
(* stalls.                                                                 *)
(***************************************************************************)
C24_LatchAddresses ==
    /\ (step = "test") =>
          /\ cpu.IF_ID.valid => cpu.PC = cpu.IF_ID.pc + 1
          /\ (cpu.IF_ID.valid /\ cpu.ID_EX.valid) =>
                cpu.IF_ID.pc = cpu.ID_EX.pc + 1
    /\ (step = "decode") => ~cpu.ID_EX.valid
    /\ (step = "fetch") => ~cpu.IF_ID.valid

\* The end of the third cycle of a three-line program: the line of address
\* 1 is in ID/EX, the line of address 2 in IF/ID, and PC is 3.
C24_Witness ==
    /\ step = "test"
    /\ cpu.IF_ID.valid /\ cpu.ID_EX.valid
    /\ cpu.ID_EX.pc = 1 /\ cpu.IF_ID.pc = 2 /\ cpu.PC = 3
    /\ cpu.EX_valid /\ cpu.EX_pc = 0

(***************************************************************************)
(* C25.  All array accesses stay in bounds in every reachable state:       *)
(* instr_mem is read only at an index < 1024, data_mem is read or written  *)
(* only at an index < 2048 and Register only at an index < 64, also when a *)
(* branch has set the program counter to a value above 1024.               *)
(***************************************************************************)
C25_AccessesInBounds ==
    /\ (step = "fetch") =>
          \A i \in fetch_instr_indices(cpu) : i \in 0..1023
    /\ (step = "decode") =>
          \A i \in decode_reg_indices(cpu) : i \in 0..63
    /\ (step = "execute") =>
          /\ \A i \in execute_reg_indices(cpu) : i \in 0..63
          /\ \A i \in execute_data_indices(cpu) : i \in 0..2047

\* BR R2 R2 with R2 = 255 has set PC to 0xFFFF and the cycle has come to
\* its fetch, which reads no instruction word.
C25_Witness ==
    /\ step = "fetch"
    /\ cpu.PC = 65535
    /\ cpu.EX_instr = 28802 /\ cpu.EX_valid
    /\ fetch_instr_indices(cpu) = {}

(***************************************************************************)
(* C26.  For every instruction-store content that contains no BR           *)
(* instruction the run loop terminates: after finitely many process_cycle  *)
(* calls the state with both latches and the EX shadow invalid and         *)
(* PC >= 1024 is reached, and a taken BEQZ fetched at P always redirects   *)
(* to an address greater than P.                                           *)
(***************************************************************************)
NoBR == \A a \in DOMAIN cpu.instr_mem : decode_opcode(cpu.instr_mem[a]) # 7

Terminated ==
    /\ step = "done"
    /\ ~cpu.IF_ID.valid /\ ~cpu.ID_EX.valid /\ ~cpu.EX_valid
    /\ cpu.PC >= INSTR_MEM_SIZE

BeqzTaken ==
    /\ AboutToExecute
    /\ cpu.ID_EX.opcode = 4
    /\ Reg(cpu, cpu.ID_EX.rs) = 0

C26_BeqzForwardStep == BeqzTaken => cpu'.PC > cpu.ID_EX.pc

C27_StatusRegisterShape ==
    /\ BitAnd(cpu.SREG, 224) = 0
    /\ ~(FlagZ /\ FlagN)

\* ADD of 128 and 128: result 0 with Z, C, V and S set, N clear.
C27_Witness ==
    /\ JustExecuted
    /\ cpu.ID_EX.opcode = 0 /\ cpu.ID_EX.rs = 1
    /\ OperandA = 128 /\ OperandB = 128
    /\ cpu.SREG = FLAG_Z + FLAG_C + FLAG_V + FLAG_S

====
